---- MODULE Spec2Model ----
(***************************************************************************)
(* The generation flow of generate-video-flow (src/unnamed/part_000):      *)
(* generateVideoFlow forks a video task (Veo submission, poll loop,        *)
(* download) and an audio task (textToSpeechFlow + toWav), joins them      *)
(* with Promise.allSettled and assembles the result.  VideoGenerator       *)
(* (src/video-generator.tsx) is the page that submits the calls.           *)
(*                                                                         *)
(* Optional values (undefined) are sequences of length 0 or 1: <<>> is     *)
(* undefined and <<v>> is the value v.  Texts are strings.                 *)
(***************************************************************************)
EXTENDS Integers, Sequences, FiniteSets, TLC

VARIABLES
    input,        \* the parsed GenerateVideoInput of the running call, <<>> before the call
    vpc,          \* position of the videoGenPromise body
    veoRequest,   \* the request handed to ai.generate(veo), <<>> before the submission
    operation,    \* the `operation` local of the video task
    video,        \* the `video` local: the content part found in the output
    timer,        \* the delay of the pending setTimeout, <<>> when none
    downloadUrl,  \* the URL handed to fetch, <<>> before the download
    videoResponse,\* the `videoResponse` local: what fetch returned, <<>> before
    videoResult,  \* settlement of videoGenPromise
    vlog,         \* history: the video task's calls and their answers, in order
    apc,          \* position of the audioGenPromise body
    ttsInput,     \* the { prompt, language } textToSpeechFlow was called with, <<>> before
    ttsRequest,   \* the request handed to ai.generate(tts), <<>> before the call
    speechMedia,  \* <<media>> once ai.generate(tts) returned { media }, <<>> before
    writer,       \* the wav.Writer of toWav: chunks still to emit, chunks collected
    audioResult,  \* settlement of audioGenPromise
    alog,         \* history: the audio task's calls and their answers, in order
    outcome,      \* settlement of the generateVideoFlow call
    console,      \* the messages the running call wrote with console.warn / console.error
    ui            \* the VideoGenerator component: its state hooks and the shown toast

videoVars == <<vpc, veoRequest, operation, video, timer, downloadUrl, videoResponse,
              videoResult, vlog>>
audioVars == <<apc, ttsInput, ttsRequest, speechMedia, writer, audioResult, alog>>
vars == <<input, videoVars, audioVars, outcome, console, ui>>

----------------------------------------------------------------------------
(* Bounds of the model and program constants                               *)

\* The status endpoint answers done=false at most MaxPolls times in one run.
MaxPolls == 2

\* setTimeout(resolve, 5000)
PollIntervalMs == 5000

\* toWav's default parameters
DefaultChannels == 1
DefaultRate == 24000
DefaultSampleWidth == 2

GEMINI_API_KEY == "KEY"

----------------------------------------------------------------------------
(* Text helpers                                                            *)

\* JavaScript truthiness of an optional string: undefined and "" are falsy.
Truthy(opt) == opt # <<>> /\ opt[1] # ""

\* a || b on optional strings, b a string
OrElse(opt, dflt) == IF Truthy(opt) THEN opt[1] ELSE dflt

\* String.prototype.indexOf for a one-character needle: 0-based, -1 when absent
IndexOf(s, c) ==
    IF \E i \in 1..Len(s) : SubSeq(s, i, i) = c
    THEN (CHOOSE i \in 1..Len(s) :
              /\ SubSeq(s, i, i) = c
              /\ \A j \in 1..(i - 1) : SubSeq(s, j, j) # c) - 1
    ELSE -1

\* String.prototype.substring(from), from 0-based
Substring(s, from) == SubSeq(s, from + 1, Len(s))

\* String.prototype.includes
Includes(s, t) ==
    \E i \in 1..(Len(s) - Len(t) + 1) : SubSeq(s, i, i + Len(t) - 1) = t

StartsWith(s, t) == Len(t) <= Len(s) /\ SubSeq(s, 1, Len(t)) = t

\* Base64 text of a byte string.  Bytes are written as text; the encoding
\* wraps them so that encoded and raw text differ and decoding inverts it.
ToBase64(bytes) == "b64(" \o bytes \o ")"

\* Buffer.from(text, 'base64'): decodes what ToBase64 produced; text that is
\* not base64 decodes to no bytes.
FromBase64(text) ==
    IF StartsWith(text, "b64(") /\ Len(text) >= 5 /\ SubSeq(text, Len(text), Len(text)) = ")"
    THEN SubSeq(text, 5, Len(text) - 1)
    ELSE ""

\* `e instanceof Error ? e.message : String(e)`.  A thrown value is
\* [isError, message, text]: message is e.message, text is String(e).
ErrorText(e) == IF e.isError THEN e.message ELSE e.text

----------------------------------------------------------------------------
(* Requests and the answers of the external endpoints                      *)

Prompts == {"a sunset"}
Narrations == {<<>>, <<"">>, <<"Hello">>}
Styles == {<<>>, <<"">>, <<"Anime">>}
AspectRatios == {<<>>, <<"9:16">>}
Languages == {<<>>, <<"hi">>, <<"te">>}

RawInputs ==
    [prompt : Prompts, narration : Narrations, style : Styles,
     aspectRatio : AspectRatios, language : Languages]

\* GenerateVideoInputSchema: aspectRatio defaults to '16:9', language to 'en'
ParseInput(raw) ==
    [prompt |-> raw.prompt,
     narration |-> raw.narration,
     style |-> raw.style,
     aspectRatio |-> IF raw.aspectRatio = <<>> THEN "16:9" ELSE raw.aspectRatio[1],
     language |-> IF raw.language = <<>> THEN <<"en">> ELSE raw.language]

Thrown ==
    {[isError |-> TRUE, message |-> "network down", text |-> "Error: network down"],
     [isError |-> FALSE, message |-> "", text |-> "boom"]}

ThrownErrors == {e \in Thrown : e.isError}

\* Content parts of an operation's output message
TextPart == [media |-> <<>>]
MediaPart(url, contentType) == [media |-> <<[url |-> url, contentType |-> contentType]>>]

Outputs ==
    {<<>>,
     <<<<TextPart>>>>,
     <<<<MediaPart("", <<"video/mp4">>)>>>>,
     <<<<TextPart, MediaPart("https://veo/1?alt=media", <<"video/webm">>)>>>>,
     <<<<MediaPart("https://veo/2?alt=media", <<>>)>>>>,
     <<<<MediaPart("", <<>>), MediaPart("https://veo/1?alt=media", <<>>)>>>>}

OperationErrors == {<<>>, <<"quota exceeded">>}

PendingOperation == [done |-> FALSE, error |-> <<>>, output |-> <<>>]
DoneOperations == [done : {TRUE}, error : OperationErrors, output : Outputs]
Operations == {PendingOperation} \cup DoneOperations

\* fetch responses: ok, whether a body is there, statusText
Responses == [ok : BOOLEAN, body : BOOLEAN, statusText : {"OK", "Forbidden"}]
Bodies == {"mp4"}

\* media of the speech endpoint's answer
PcmData == {"pcm"}
TtsMedia ==
    {<<>>, <<[url |-> ""]>>}
    \cup {<<[url |-> "data:audio/L16;base64," \o ToBase64(p)]>> : p \in PcmData}

Pending == [status |-> "pending", value |-> <<>>, message |-> ""]
Fulfilled(v) == [status |-> "fulfilled", value |-> v, message |-> ""]
Rejected(m) == [status |-> "rejected", value |-> <<>>, message |-> m]

\* VideoGenerator before the first submit: useState(false), useState(0),
\* useState(null) twice, useTransition; no toast shown.  `awaiting` is the
\* position of the transition callback (suspended at `await generateVideo`),
\* `history` the settlements of the calls made so far.
InitialView ==
    [isGenerating |-> FALSE, isPending |-> FALSE, generationProgress |-> 0,
     generatedVideoUrl |-> <<>>, generatedAudioUrl |-> <<>>, toast |-> <<>>,
     awaiting |-> FALSE, history |-> <<>>]

NoWriter == [queue |-> <<>>, bufs |-> <<>>, emitted |-> <<>>, promise |-> Pending]

Init ==
    /\ input = <<>>
    /\ vpc = "idle"
    /\ veoRequest = <<>>
    /\ operation = <<>>
    /\ video = <<>>
    /\ timer = <<>>
    /\ downloadUrl = <<>>
    /\ videoResponse = <<>>
    /\ videoResult = Pending
    /\ vlog = <<>>
    /\ apc = "idle"
    /\ ttsInput = <<>>
    /\ ttsRequest = <<>>
    /\ speechMedia = <<>>
    /\ writer = NoWriter
    /\ audioResult = Pending
    /\ alog = <<>>
    /\ outcome = [status |-> "pending", videoUrl |-> <<>>, audioUrl |-> <<>>, message |-> ""]
    /\ console = {}
    /\ ui = InitialView

----------------------------------------------------------------------------
(* The video task: videoGenPromise                                         *)

Count(log, entry) == Cardinality({i \in 1..Len(log) : log[i] = entry})

\* A resumption of the video task: where it stops next and what it did.
VideoStep(pc, result, part, delay, url, calls, logged) ==
    [pc |-> pc, result |-> result, video |-> part, timer |-> delay,
     downloadUrl |-> url, calls |-> calls, logged |-> logged]

\* Variant of VideoFails: the error is lost and the promise never settles.
VideoFailsUnsettled(message, logged) ==
    VideoStep("failed", Pending, video, <<>>, downloadUrl, <<>>, logged)

\* throw new Error(message) in the video body: videoGenPromise is rejected.
VideoFails(message, logged) ==
    VideoStep("settled", Rejected(message), video, <<>>, downloadUrl, <<>>, logged)

\* Variant of FullPrompt: the style is interpolated without a default.
FullPromptNoDefault(in) ==
    in.prompt \o ", in the style of "
              \o (IF in.style = <<>> THEN "undefined" ELSE in.style[1])

\* `${input.prompt}, in the style of ${input.style || 'a cinematic film'}`
FullPrompt(in) == in.prompt \o ", in the style of " \o OrElse(in.style, "a cinematic film")

\* the arguments of ai.generate for the Veo model
VeoRequest(in) ==
    [model |-> "veo-3.0-generate-preview",
     prompt |-> <<[text |-> FullPrompt(in)]>>,
     config |-> [aspectRatio |-> in.aspectRatio]]

\* Variant of InitiationFailure: the caught error is rethrown as it is.
InitiationFailureUnwrapped(e) ==
    VideoFails(ErrorText(e), {"error: Error calling Veo API:"})

\* catch (e) of the submission
InitiationFailure(e) ==
    VideoFails("Failed to initiate video generation: " \o ErrorText(e),
               {"error: Error calling Veo API:"})

\* if (!operation) throw
MissingOperation ==
    VideoFails("Expected the model to return an operation for video generation.", {})

\* Variant of PollFailure: the error is logged and the loop goes on.
PollFailureResumes(e) ==
    VideoStep("sleeping", Pending, video, <<PollIntervalMs>>, downloadUrl, <<"sleep">>,
              {"error: Error polling for video completion:"})

\* catch (e) of a status check
PollFailure(e) ==
    VideoFails("Failed to check video generation status: " \o ErrorText(e),
               {"error: Error polling for video completion:"})

\* Variant of OperationFailure: the provider's message is thrown as it is.
OperationFailureBare(op) ==
    VideoFails(op.error[1], {"error: Video generation failed:"})

\* if (operation.error) throw
OperationFailure(op) ==
    VideoFails("Video generation failed: " \o op.error[1],
               {"error: Video generation failed:"})

\* operation.output?.message?.content.find((p) => !!p.media)
FindVideo(op) ==
    IF op.output = <<>> THEN <<>>
    ELSE LET content == op.output[1]
             found == {i \in 1..Len(content) : content[i].media # <<>>}
         IN  IF found = {} THEN <<>>
             ELSE <<content[CHOOSE i \in found : \A j \in found : i <= j]>>

\* Variant of VideoMissing: the media part's url is not tested.
VideoMissingNoUrlCheck(part) == part = <<>>

\* if (!video || !video.media?.url)
VideoMissing(part) == part = <<>> \/ part[1].media[1].url = ""

\* `${video.media.url}&key=${process.env.GEMINI_API_KEY}`
VideoDownloadUrl(part) == part[1].media[1].url \o "&key=" \o GEMINI_API_KEY

\* Variant of AfterLoop: the media part is looked up before the error field.
AfterLoopMediaFirst(op) ==
    LET part == FindVideo(op)
    IN  IF ~VideoMissing(part)
        THEN VideoStep("fetching", Pending, part, <<>>,
                       <<VideoDownloadUrl(part)>>, <<"fetch">>, {})
        ELSE IF op.error # <<>> THEN OperationFailure(op)
        ELSE VideoFails("Failed to find the generated video in the operation output.", {})

\* The statements after the loop, up to the await of fetch.
AfterLoop(op) ==
    IF op.error # <<>> THEN OperationFailure(op)
    ELSE LET part == FindVideo(op)
         IN  IF VideoMissing(part)
             THEN VideoFails("Failed to find the generated video in the operation output.", {})
             ELSE VideoStep("fetching", Pending, part, <<>>,
                            <<VideoDownloadUrl(part)>>, <<"fetch">>, {})

\* Variant of WhileLoop: polling goes on until the operation has an output.
WhileLoopUntilOutput(op) ==
    IF ~op.done \/ (op.error = <<>> /\ op.output = <<>>)
    THEN VideoStep("sleeping", Pending, video, <<PollIntervalMs>>, downloadUrl, <<"sleep">>, {})
    ELSE AfterLoop(op)

\* Variant of WhileLoop: the loop gives up after its second status check.
WhileLoopMaxAttempts(op) ==
    IF ~op.done
    THEN IF Count(vlog, "check") >= 2
         THEN VideoFails("Video generation timed out.", {})
         ELSE VideoStep("sleeping", Pending, video, <<PollIntervalMs>>, downloadUrl,
                        <<"sleep">>, {})
    ELSE AfterLoop(op)

\* while (!operation.done) { await setTimeout 5000; ... }
WhileLoop(op) ==
    IF ~op.done
    THEN VideoStep("sleeping", Pending, video, <<PollIntervalMs>>, downloadUrl, <<"sleep">>, {})
    ELSE AfterLoop(op)

\* Variant of DownloadFailed: the body is not tested.
DownloadFailedNoBodyCheck(resp) == ~resp.ok

\* if (!videoResponse.ok || !videoResponse.body) throw
DownloadFailed(resp) == ~resp.ok \/ ~resp.body

DownloadFailure(part, resp) ==
    VideoFails("Failed to download video from " \o part[1].media[1].url
                   \o ". Status: " \o resp.statusText, {})

\* `data:${contentType};base64,${videoBase64}`
VideoDataUri(part, bytes) ==
    "data:" \o OrElse(part[1].media[1].contentType, "video/mp4")
            \o ";base64," \o ToBase64(bytes)

\* The video task runs from an answer to its next await (or to its end).
VideoResume(answer, step) ==
    /\ vpc' = step.pc
    /\ videoResult' = step.result
    /\ video' = step.video
    /\ timer' = step.timer
    /\ downloadUrl' = step.downloadUrl
    /\ vlog' = (vlog \o <<answer>>) \o step.calls
    /\ console' = console \cup step.logged
    /\ UNCHANGED <<ui, input, audioVars, outcome>>

\* await import('node-fetch') resolves; the prompt is composed and submitted.
VideoSubmit ==
    /\ vpc = "importing"
    /\ vpc' = "submitting"
    /\ veoRequest' = <<VeoRequest(input[1])>>
    /\ vlog' = Append(vlog, "submit")
    /\ UNCHANGED <<ui, input, operation, video, timer, downloadUrl, videoResponse,
                   videoResult, audioVars, outcome, console>>

\* ai.generate(veo) returns: operation = genkitResponse.operation
SubmitReturn(op) ==
    /\ vpc = "submitting"
    /\ operation' = op
    /\ IF op = <<>>
       THEN VideoResume("submit:none", MissingOperation)
       ELSE VideoResume(IF op[1].done THEN "submit:done" ELSE "submit:pending",
                        WhileLoop(op[1]))
    /\ UNCHANGED <<veoRequest, videoResponse>>

\* ai.generate(veo) raises
SubmitRaise(e) ==
    /\ vpc = "submitting"
    /\ VideoResume("submit:raise", InitiationFailure(e))
    /\ UNCHANGED <<veoRequest, operation, videoResponse>>

\* the 5 s timer fires; ai.checkOperation(operation) is called
TimerFires ==
    /\ vpc = "sleeping"
    /\ vpc' = "checking"
    /\ timer' = <<>>
    /\ vlog' = Append(vlog, "check")
    /\ UNCHANGED <<ui, input, veoRequest, operation, video, downloadUrl, videoResponse, videoResult,
                   audioVars, outcome, console>>

\* ai.checkOperation returns the refreshed operation
CheckReturn(op) ==
    /\ vpc = "checking"
    /\ op.done \/ Count(vlog, "check:pending") < MaxPolls
    /\ operation' = <<op>>
    /\ VideoResume(IF op.done THEN "check:done" ELSE "check:pending", WhileLoop(op))
    /\ UNCHANGED <<veoRequest, videoResponse>>

\* ai.checkOperation raises
CheckRaise(e) ==
    /\ vpc = "checking"
    /\ VideoResume("check:raise", PollFailure(e))
    /\ UNCHANGED <<veoRequest, operation, videoResponse>>

\* fetch(videoDownloadUrl) returns a response
FetchReturn(resp) ==
    /\ vpc = "fetching"
    /\ IF DownloadFailed(resp)
       THEN VideoResume("fetch:bad", DownloadFailure(video, resp))
       ELSE VideoResume("fetch:ok",
                        VideoStep("reading", Pending, video, <<>>, downloadUrl, <<"read">>, {}))
    /\ videoResponse' = <<resp>>
    /\ UNCHANGED <<veoRequest, operation>>

\* fetch rejects (node-fetch rejects with an Error)
FetchRaise(e) ==
    /\ vpc = "fetching"
    /\ VideoResume("fetch:raise", VideoFails(e.message, {}))
    /\ UNCHANGED <<veoRequest, operation, videoResponse>>

\* videoResponse.arrayBuffer() returns the body
ReadReturn(bytes) ==
    /\ vpc = "reading"
    /\ VideoResume("read:ok",
                   VideoStep("settled", Fulfilled(<<VideoDataUri(video, bytes)>>),
                             video, <<>>, downloadUrl, <<>>, {}))
    /\ UNCHANGED <<veoRequest, operation, videoResponse>>

\* videoResponse.arrayBuffer() rejects
ReadRaise(e) ==
    /\ vpc = "reading"
    /\ VideoResume("read:raise", VideoFails(e.message, {}))
    /\ UNCHANGED <<veoRequest, operation, videoResponse>>

VideoNext ==
    \/ VideoSubmit
    \/ \E op \in {<<>>} \cup {<<o>> : o \in Operations} : SubmitReturn(op)
    \/ \E e \in Thrown : SubmitRaise(e)
    \/ TimerFires
    \/ \E op \in Operations : CheckReturn(op)
    \/ \E e \in Thrown : CheckRaise(e)
    \/ \E resp \in Responses : FetchReturn(resp)
    \/ \E e \in ThrownErrors : FetchRaise(e)
    \/ \E bytes \in Bodies : ReadReturn(bytes)
    \/ \E e \in ThrownErrors : ReadRaise(e)

----------------------------------------------------------------------------
(* The audio task: audioGenPromise, textToSpeechFlow and toWav             *)

\* Variant of VoiceName: the Telugu branch is missing.
VoiceNameNoTelugu(language) ==
    IF language = "hi" THEN "hi-IN-Neural2-A" ELSE "Algenib"

\* let voiceName = 'Algenib'; if (language === 'hi') ... else if (language === 'te') ...
VoiceName(language) ==
    IF language = "hi" THEN "hi-IN-Neural2-A"
    ELSE IF language = "te" THEN "te-IN-Wavenet-A"
    ELSE "Algenib"

\* the arguments of ai.generate for the TTS model
TtsRequest(prompt, language) ==
    [model |-> "gemini-2.5-flash-preview-tts",
     responseModalities |-> <<"AUDIO">>,
     voiceName |-> VoiceName(language),
     prompt |-> prompt]

\* Variant of SkipNarration: only a null narration is skipped.
SkipNarrationIfNull(in) == FALSE

\* Variant of SkipNarration: only a missing narration is skipped.
SkipNarrationIfUndefined(in) == in.narration = <<>>

\* if (!input.narration) return undefined;
SkipNarration(in) == ~Truthy(in.narration)

\* Variant of NoMediaUrl: only a missing media object counts, not a missing url.
NoMediaObject(media) == media = <<>>

\* if (!media?.url)
NoMediaUrl(media) == media = <<>> \/ media[1].url = ""

\* Buffer.from(media.url.substring(media.url.indexOf(',') + 1), 'base64')
AudioBuffer(url) == FromBase64(Substring(url, IndexOf(url, ",") + 1))

\* The header chunk wav.Writer emits before the samples.
WavHeader(channels, rate, bitDepth) ==
    "RIFF(" \o ToString(channels) \o "," \o ToString(rate) \o ","
            \o ToString(bitDepth) \o ")"

\* new wav.Writer(...); writer.write(pcmData); writer.end(): the chunks the
\* writer will emit as 'data' events, the empty bufs array, the chunks emitted
\* so far (history) and the settlement of toWav's promise.
NewWriter(pcmData, channels, rate, sampleWidth) ==
    [queue |-> <<WavHeader(channels, rate, sampleWidth * 8), pcmData>>, bufs |-> <<>>,
     emitted |-> <<>>, promise |-> Pending]

\* Buffer.concat(bufs)
RECURSIVE Concat(_)
Concat(bufs) == IF bufs = <<>> THEN "" ELSE Head(bufs) \o Concat(Tail(bufs))

\* `data:audio/wav;base64,${wavBase64}`
AudioDataUri(wavBase64) == "data:audio/wav;base64," \o wavBase64

\* Variant of TtsCaught: the caught error is rethrown.
TtsRethrown(e) == Rejected(ErrorText(e))

\* catch (error) { console.error(...); return undefined; }
TtsCaught(e) == Fulfilled(<<>>)

\* The audio task settles.
AudioSettles(answer, result, logged) ==
    /\ apc' = "settled"
    /\ audioResult' = result
    /\ alog' = Append(alog, answer)
    /\ console' = console \cup logged
    /\ UNCHANGED <<ui, input, videoVars, ttsInput, outcome>>

\* the body of textToSpeechFlow starts: the voice is chosen, ai.generate is called
TtsCall ==
    /\ apc = "flow"
    /\ apc' = "speaking"
    /\ ttsRequest' = <<TtsRequest(ttsInput[1].prompt, ttsInput[1].language)>>
    /\ alog' = Append(alog, "tts")
    /\ UNCHANGED <<ui, input, videoVars, ttsInput, speechMedia, writer, audioResult, outcome,
                   console>>

\* ai.generate(tts) returns { media }
TtsReturn(media) ==
    /\ apc = "speaking"
    /\ IF NoMediaUrl(media)
       THEN /\ AudioSettles("tts:nomedia", Fulfilled(<<>>),
                            {"warn: TTS generation returned no media URL."})
            /\ UNCHANGED writer
       ELSE /\ apc' = "encoding"
            /\ writer' = NewWriter(AudioBuffer(media[1].url), DefaultChannels,
                                   DefaultRate, DefaultSampleWidth)
            /\ alog' = alog \o <<"tts:media", "toWav">>
            /\ UNCHANGED <<ui, input, videoVars, ttsInput, audioResult, outcome, console>>
    /\ speechMedia' = <<media>>
    /\ UNCHANGED ttsRequest

\* ai.generate(tts) raises
TtsRaise(e) ==
    /\ apc = "speaking"
    /\ AudioSettles("tts:raise", TtsCaught(e), {"error: Error in textToSpeechFlow:"})
    /\ UNCHANGED <<ttsRequest, speechMedia, writer>>

\* Variant of Push: bufs.unshift(d)
PushFront(bufs, d) == <<d>> \o bufs

\* bufs.push(d)
Push(bufs, d) == Append(bufs, d)

\* writer 'data': bufs.push(d)
WriterData ==
    /\ apc = "encoding"
    /\ writer.queue # <<>>
    /\ writer' = [writer EXCEPT !.queue = Tail(writer.queue),
                                !.bufs = Push(writer.bufs, Head(writer.queue)),
                                !.emitted = Append(writer.emitted, Head(writer.queue))]
    /\ alog' = Append(alog, "data")
    /\ UNCHANGED <<ui, input, videoVars, apc, ttsInput, ttsRequest, speechMedia, audioResult,
                   outcome, console>>

\* writer 'end': resolve(Buffer.concat(bufs).toString('base64'))
WriterEnd ==
    /\ apc = "encoding"
    /\ writer.queue = <<>>
    /\ writer' = [writer EXCEPT !.promise = Fulfilled(<<ToBase64(Concat(writer.bufs))>>)]
    /\ AudioSettles("end", Fulfilled(<<AudioDataUri(ToBase64(Concat(writer.bufs)))>>), {})
    /\ UNCHANGED <<ttsRequest, speechMedia>>

\* writer 'error': reject, caught by textToSpeechFlow
WriterError(e) ==
    /\ apc = "encoding"
    /\ writer' = [writer EXCEPT !.promise = Rejected(e.message)]
    /\ AudioSettles("error", TtsCaught(e), {"error: Error in textToSpeechFlow:"})
    /\ UNCHANGED <<ttsRequest, speechMedia>>

AudioNext ==
    \/ TtsCall
    \/ \E media \in TtsMedia : TtsReturn(media)
    \/ \E e \in Thrown : TtsRaise(e)
    \/ WriterData
    \/ WriterEnd
    \/ \E e \in ThrownErrors : WriterError(e)

----------------------------------------------------------------------------
(* The coordinator: generateVideoFlow                                      *)

\* textToSpeechFlow({ prompt: input.narration, language: input.language || 'en' })
SpeechInput(in) == [prompt |-> in.narration, language |-> OrElse(in.language, "en")]

\* generateVideoFlow(input), a fresh invocation: the input is parsed and both
\* async bodies run to their first await.
Launch(raw) ==
    /\ input' = <<ParseInput(raw)>>
    /\ vpc' = "importing"
    /\ IF SkipNarration(ParseInput(raw))
       THEN apc' = "settled" /\ audioResult' = Fulfilled(<<>>) /\ ttsInput' = <<>>
       ELSE /\ apc' = "flow"
            /\ audioResult' = Pending
            /\ ttsInput' = <<SpeechInput(ParseInput(raw))>>
    /\ veoRequest' = <<>>
    /\ operation' = <<>>
    /\ video' = <<>>
    /\ timer' = <<>>
    /\ downloadUrl' = <<>>
    /\ videoResponse' = <<>>
    /\ videoResult' = Pending
    /\ vlog' = <<>>
    /\ ttsRequest' = <<>>
    /\ speechMedia' = <<>>
    /\ writer' = NoWriter
    /\ alog' = <<>>
    /\ outcome' = [status |-> "pending", videoUrl |-> <<>>, audioUrl |-> <<>>, message |-> ""]
    /\ console' = {}

\* generateVideo(input) called once, from outside the component
Invoke(raw) ==
    /\ input = <<>>
    /\ apc = "idle"
    /\ Launch(raw)
    /\ UNCHANGED ui

\* Variant of AllSettled: Promise.all, which settles on the first rejection.
FirstRejectionOrAll(v, a) ==
    \/ v.status = "rejected"
    \/ a.status = "rejected"
    \/ v.status = "fulfilled" /\ a.status = "fulfilled"

\* await Promise.allSettled([videoGenPromise, audioGenPromise]) resumes
AllSettled(v, a) == v.status # "pending" /\ a.status # "pending"

\* Variant of Settle: the two settlements are destructured in the wrong order.
SettleSwapped(v, a) ==
    IF a.status = "rejected"
    THEN [status |-> "rejected", videoUrl |-> <<>>, audioUrl |-> <<>>,
          message |-> "Video generation failed: " \o a.message]
    ELSE [status |-> "returned", videoUrl |-> a.value,
          audioUrl |-> IF v.status = "fulfilled" THEN v.value ELSE <<>>,
          message |-> ""]

\* Variant of Settle: a missing audio value is treated as fatal too.
SettleRequiresAudio(v, a) ==
    IF v.status = "rejected"
    THEN [status |-> "rejected", videoUrl |-> <<>>, audioUrl |-> <<>>,
          message |-> "Video generation failed: " \o v.message]
    ELSE IF a.status = "rejected" \/ a.value = <<>>
    THEN [status |-> "rejected", videoUrl |-> <<>>, audioUrl |-> <<>>,
          message |-> "Audio generation failed: " \o a.message]
    ELSE [status |-> "returned", videoUrl |-> v.value, audioUrl |-> a.value,
          message |-> ""]

\* Variant of Settle: audioUrl is never assigned.
SettleDropsAudio(v, a) ==
    IF v.status = "rejected"
    THEN [status |-> "rejected", videoUrl |-> <<>>, audioUrl |-> <<>>,
          message |-> "Video generation failed: " \o v.message]
    ELSE [status |-> "returned", videoUrl |-> v.value, audioUrl |-> <<>>,
          message |-> ""]

\* the statements after the join
Settle(v, a) ==
    IF v.status = "rejected"
    THEN [status |-> "rejected", videoUrl |-> <<>>, audioUrl |-> <<>>,
          message |-> "Video generation failed: " \o v.message]
    ELSE [status |-> "returned", videoUrl |-> v.value,
          audioUrl |-> IF a.status = "fulfilled" THEN a.value ELSE <<>>,
          message |-> ""]

SettleLogged(v, a) ==
    IF v.status = "rejected" THEN {"error: Video generation failed:"}
    ELSE IF a.status = "fulfilled" THEN {}
    ELSE {"warn: Audio generation failed:"}

Join ==
    /\ input # <<>>
    /\ outcome.status = "pending"
    /\ AllSettled(videoResult, audioResult)
    /\ outcome' = Settle(videoResult, audioResult)
    /\ console' = console \cup SettleLogged(videoResult, audioResult)
    /\ UNCHANGED <<ui, input, videoVars, audioVars>>

Next ==
    \/ \E raw \in RawInputs : Invoke(raw)
    \/ VideoNext
    \/ AudioNext
    \/ Join

Spec == Init /\ [][Next]_vars

----------------------------------------------------------------------------
(* textToSpeechFlow called on its own                                      *)

\* Its inputSchema is { prompt: z.string(), language: z.string() }: as a
\* registered flow it takes any text and any language code.
SpeechTexts == {<<"Hello">>, <<"Namaste">>}
SpeechLanguages == {"en", "hi", "te", "fr", "HI", ""}

\* textToSpeechFlow({ prompt, language }) has been called directly.
InitSpeech ==
    /\ input = <<>>
    /\ vpc = "idle"
    /\ veoRequest = <<>>
    /\ operation = <<>>
    /\ video = <<>>
    /\ timer = <<>>
    /\ downloadUrl = <<>>
    /\ videoResponse = <<>>
    /\ videoResult = Pending
    /\ vlog = <<>>
    /\ apc = "flow"
    /\ ttsInput \in {<<i>> : i \in [prompt : SpeechTexts, language : SpeechLanguages]}
    /\ ttsRequest = <<>>
    /\ speechMedia = <<>>
    /\ writer = NoWriter
    /\ audioResult = Pending
    /\ alog = <<>>
    /\ outcome = [status |-> "pending", videoUrl |-> <<>>, audioUrl |-> <<>>, message |-> ""]
    /\ console = {}
    /\ ui = InitialView

\* The event loop resumes every continuation whose await has an answer, and
\* every endpoint call, timer and writer eventually answers.
FairSpec ==
    /\ Spec
    /\ WF_vars(VideoNext)
    /\ WF_vars(AudioNext)
    /\ WF_vars(Join)

\* Either entry point: generateVideo, or textToSpeechFlow on its own.
SpecFlows == (Init \/ InitSpeech) /\ [][Next]_vars

----------------------------------------------------------------------------
(* The presentation layer: VideoGenerator (src/video-generator.tsx)        *)

\* The component is submitted at most MaxSubmits times in one run.
MaxSubmits == 2

\* The progress interval is followed for MaxTicks ticks of a generation.
MaxTicks == 1

\* `if (prev >= 95)`: the interval stops counting at 95
ProgressCap == 95

\* Values that pass formSchema: script of 10 to 4000 characters, optional
\* narration, a style name, a language of the enum.
Scripts == {"a sunset over hills"}
FormNarrations == {<<>>, <<"">>, <<"Hello">>}
FormStyles == {"Cinematic"}
FormLanguages == {"en", "hi"}

FormValues ==
    {v \in [script : Scripts, narration : FormNarrations, style : FormStyles,
            language : FormLanguages] :
        Len(v.script) >= 10 /\ Len(v.script) <= 4000}

\* the argument of generateVideo built by onSubmit
FormInput(values) ==
    [prompt |-> values.script,
     narration |-> values.narration,
     style |-> <<values.style>>,
     aspectRatio |-> <<"16:9">>,
     language |-> <<values.language>>]

\* Variant of ClearResult: the previous result stays on screen.
ClearResultKeepsUrls(u) ==
    [u EXCEPT !.isGenerating = TRUE, !.generationProgress = 0]

\* setIsGenerating(true); setGenerationProgress(0);
\* setGeneratedVideoUrl(null); setGeneratedAudioUrl(null);
ClearResult(u) ==
    [u EXCEPT !.isGenerating = TRUE,
              !.generationProgress = 0,
              !.generatedVideoUrl = <<>>,
              !.generatedAudioUrl = <<>>]

\* if (result.videoUrl) { setGenerationProgress(100); setGeneratedVideoUrl(...);
\* setGeneratedAudioUrl(result.audioUrl || null); }
ShowResult(u, result) ==
    [u EXCEPT !.generationProgress = 100,
              !.generatedVideoUrl = result.videoUrl,
              !.generatedAudioUrl =
                  IF Truthy(result.audioUrl) THEN result.audioUrl ELSE <<>>]

DefaultDescription ==
    "Something went wrong while generating the video. Please check the console and try again."

\* catch (error) { console.error(error); toast({ ..., description: error.message || ... }) }
ToastFailure(u, message) ==
    [u EXCEPT !.toast = <<IF message # "" THEN message ELSE DefaultDescription>>]

\* the body of the transition callback after `await generateVideo(...)`
AfterCall(u, call) ==
    IF call.status = "returned"
    THEN IF Truthy(call.videoUrl)
         THEN ShowResult(u, call)
         ELSE ToastFailure(u, "Video generation failed to return a URL.")
    ELSE ToastFailure(u, call.message)

\* finally { setIsGenerating(false); }
Finally(u) == [u EXCEPT !.isGenerating = FALSE]

\* The submit button is disabled while isGenerating || isPending.
SubmitEnabled == ~(ui.isGenerating \/ ui.isPending)

\* onSubmit(values): clears the previous result and starts the transition,
\* whose callback calls generateVideo and suspends.
OnSubmit(values) ==
    /\ SubmitEnabled
    /\ Len(ui.history) < MaxSubmits
    /\ ui' = [ClearResult(ui) EXCEPT !.isPending = TRUE, !.awaiting = TRUE]
    /\ Launch(FormInput(values))

\* The transition callback resumes with the settlement of generateVideo.
CallSettles ==
    /\ ui.awaiting
    /\ outcome.status # "pending"
    /\ ui' = [Finally(AfterCall(ui, outcome)) EXCEPT
                  !.awaiting = FALSE,
                  !.history = Append(@, outcome.status)]
    /\ UNCHANGED <<input, videoVars, audioVars, outcome, console>>

\* useTransition's isPending goes back to false: when the callback has
\* returned its promise or when that promise has settled, as React decides.
TransitionEnds ==
    /\ ui.isPending
    /\ ui' = [ui EXCEPT !.isPending = FALSE]
    /\ UNCHANGED <<input, videoVars, audioVars, outcome, console>>

\* The progress interval of the isGenerating effect ticks every second.
ProgressTick ==
    /\ ui.isGenerating
    /\ ui.generationProgress < ProgressCap
    /\ ui.generationProgress < MaxTicks
    /\ ui' = [ui EXCEPT !.generationProgress = @ + 1]
    /\ UNCHANGED <<input, videoVars, audioVars, outcome, console>>

NextView ==
    \/ \E values \in FormValues : OnSubmit(values)
    \/ VideoNext
    \/ AudioNext
    \/ Join
    \/ CallSettles
    \/ TransitionEnds
    \/ ProgressTick

\* The page: every call of generateVideo comes from the component.
SpecView == Init /\ [][NextView]_vars

----------------------------------------------------------------------------
(* Properties                                                              *)

Has(log, entry) == \E i \in 1..Len(log) : log[i] = entry

Settled == outcome.status # "pending"

\* The video task met one of its failure causes.
VideoFailureSeen ==
    \/ \E entry \in {"submit:raise", "submit:none", "check:raise", "fetch:bad"} :
           Has(vlog, entry)
    \/ /\ operation # <<>>
       /\ operation[1].done
       /\ operation[1].error # <<>> \/ VideoMissing(FindVideo(operation[1]))

\* The audio task met one of its failure causes.
AudioFailureSeen ==
    \E entry \in {"tts:raise", "tts:nomedia", "error"} : Has(alog, entry)

\* C1: when the request has no narration, the speech endpoint is never
\* called (the audio task is fulfilled with undefined at once), and a
\* returned result has no audioUrl.
C1_NoNarrationNoSpeech ==
    (input # <<>> /\ input[1].narration = <<>>) =>
        /\ ttsRequest = <<>>
        /\ ~Has(alog, "tts")
        /\ audioResult = Fulfilled(<<>>)
        /\ outcome.status = "returned" => outcome.audioUrl = <<>>

C1_Witness ==
    /\ input # <<>>
    /\ input[1].narration = <<>>
    /\ outcome.status = "returned"

\* C2: when the video task fails (submission raises, no operation handle, a
\* status check raises, the operation carries an error, no media part, bad
\* download), the call is never returned a result; once it settles it is a
\* rejection, whatever the audio task did.
C2_VideoFailureRejects ==
    VideoFailureSeen =>
        /\ videoResult.status = "rejected"
        /\ outcome.status # "returned"
        /\ Settled => outcome.status = "rejected"

C2_Witness ==
    /\ Has(vlog, "fetch:bad")
    /\ audioResult.status = "fulfilled"
    /\ audioResult.value # <<>>
    /\ outcome.status = "rejected"

\* C3: when the video task succeeds and the audio task fails (speech endpoint
\* raises, no media, encoder error), the call returns a result whose audioUrl
\* is undefined; an audio failure alone never rejects the call.
C3_AudioFailureIsolated ==
    (AudioFailureSeen /\ Settled) =>
        /\ videoResult.status = "fulfilled" =>
               outcome.status = "returned" /\ outcome.audioUrl = <<>>
        /\ outcome.status = "rejected" => videoResult.status = "rejected"

C3_Witness ==
    /\ Has(alog, "error")
    /\ videoResult.status = "fulfilled"
    /\ outcome.status = "returned"
    /\ outcome.audioUrl = <<>>

\* C4: textToSpeechFlow never rejects: whatever the speech endpoint and the
\* writer do, once it was called it settles as fulfilled, with undefined or
\* with a data:audio/wav URI.
C4_SpeechNeverRaises ==
    Has(alog, "tts") =>
        /\ audioResult.status # "rejected"
        /\ apc = "settled" =>
               /\ audioResult.status = "fulfilled"
               /\ \/ audioResult.value = <<>>
                  \/ StartsWith(audioResult.value[1], "data:audio/wav;base64,")

C4_Witness ==
    /\ Has(alog, "tts:raise") \/ Has(alog, "error")
    /\ audioResult = Fulfilled(<<>>)
    /\ apc = "settled"

\* C5: the call settles only after both tasks have settled; while one task
\* has settled (even as a failure) and the other has not, the call is still
\* pending and the other task can still take its next step.
C5_JoinWaitsForBoth ==
    /\ Settled => videoResult.status # "pending" /\ audioResult.status # "pending"
    /\ (videoResult.status = "rejected" /\ audioResult.status = "pending" /\ input # <<>>) =>
           ~Settled /\ ENABLED AudioNext
    /\ (audioResult.status # "pending" /\ videoResult.status = "pending" /\ input # <<>>) =>
           ~Settled /\ ENABLED VideoNext

C5_Witness ==
    /\ videoResult.status = "rejected"
    /\ apc = "encoding"
    /\ writer.queue = <<>>
    /\ ~Settled

\* C6: a returned result carries exactly the video task's value as videoUrl
\* (a data URI, always present) and exactly the audio task's fulfilled value
\* as audioUrl (undefined when the audio task did not yield one).
C6_ResultCarriesTaskValues ==
    outcome.status = "returned" =>
        /\ videoResult.status = "fulfilled"
        /\ outcome.videoUrl = videoResult.value
        /\ outcome.videoUrl # <<>>
        /\ StartsWith(outcome.videoUrl[1], "data:")
        /\ outcome.audioUrl =
               IF audioResult.status = "fulfilled" THEN audioResult.value ELSE <<>>

C6_Witness ==
    /\ outcome.status = "returned"
    /\ outcome.audioUrl # <<>>
    /\ outcome.videoUrl # outcome.audioUrl

\* The sleeps and status checks of the video task, in order.
Polls == SelectSeq(vlog, LAMBDA entry : entry \in {"sleep", "check"})

\* C7: sleeps and status checks strictly alternate, starting with a sleep of
\* 5000 ms; every check directly follows a sleep; nothing is polled after an
\* answer with done=true; and when the submission returned a not-done
\* operation and the status endpoint answered done=false N times and then
\* done=true, exactly N+1 checks (and N+1 sleeps) were made.
C7_PollLoopCounts ==
    /\ \A i \in 1..Len(Polls) : Polls[i] = IF i % 2 = 1 THEN "sleep" ELSE "check"
    /\ \A i \in 1..Len(vlog) : vlog[i] = "check" => i > 1 /\ vlog[i - 1] = "sleep"
    /\ \A i \in 1..Len(vlog) : \A j \in (i + 1)..Len(vlog) :
           vlog[i] \in {"submit:done", "check:done"} => vlog[j] \notin {"sleep", "check"}
    /\ vpc = "sleeping" => timer = <<5000>>
    /\ (Has(vlog, "submit:pending") /\ Has(vlog, "check:done")) =>
           /\ Count(vlog, "check") = Count(vlog, "check:pending") + 1
           /\ Count(vlog, "sleep") = Count(vlog, "check")

C7_Witness ==
    /\ Has(vlog, "submit:pending")
    /\ Has(vlog, "check:done")
    /\ Count(vlog, "check:pending") >= 2
    /\ Count(vlog, "check") = Count(vlog, "check:pending") + 1

\* C8: when the submission raises, the call rejects with a message that
\* contains "Failed to initiate video generation", and the request sees no
\* sleep, no status check, no download and no second submission.
C8_InitiationFailure ==
    Has(vlog, "submit:raise") =>
        /\ \A entry \in {"sleep", "check", "fetch", "read"} : ~Has(vlog, entry)
        /\ Count(vlog, "submit") = 1
        /\ downloadUrl = <<>>
        /\ videoResult.status = "rejected"
        /\ Settled =>
               /\ outcome.status = "rejected"
               /\ Includes(outcome.message, "Failed to initiate video generation")

C8_Witness ==
    /\ Has(vlog, "submit:raise")
    /\ outcome.status = "rejected"

\* C9: when the operation is done and carries an error with message m, the
\* call rejects with a message that contains m and nothing is downloaded,
\* even when the output carries a media part.
C9_OperationError ==
    (operation # <<>> /\ operation[1].done /\ operation[1].error # <<>>) =>
        /\ ~Has(vlog, "fetch")
        /\ downloadUrl = <<>>
        /\ videoResult.status = "rejected"
        /\ Includes(videoResult.message, operation[1].error[1])
        /\ Settled =>
               /\ outcome.status = "rejected"
               /\ Includes(outcome.message, operation[1].error[1])

C9_Witness ==
    /\ operation # <<>>
    /\ operation[1].done
    /\ operation[1].error = <<"quota exceeded">>
    /\ ~VideoMissing(FindVideo(operation[1]))
    /\ outcome.status = "rejected"

\* C10 as stated: with no style the submitted prompt ends in
\* "in the style of cinematic film", with a style it ends in that style.
C10_AsStated ==
    veoRequest # <<>> =>
        veoRequest[1].prompt[1].text =
            input[1].prompt \o ", in the style of "
                \o (IF input[1].style = <<>> THEN "cinematic film" ELSE input[1].style[1])

\* C10 (amended): with no style or an empty style the submitted prompt is
\* "<prompt>, in the style of a cinematic film"; with a non-empty style it
\* is "<prompt>, in the style of <style>".
C10_DefaultStyle ==
    veoRequest # <<>> =>
        /\ Len(veoRequest[1].prompt) = 1
        /\ veoRequest[1].prompt[1].text =
               IF input[1].style = <<>> \/ input[1].style = <<"">>
               THEN input[1].prompt \o ", in the style of a cinematic film"
               ELSE input[1].prompt \o ", in the style of " \o input[1].style[1]

C10_Witness ==
    /\ veoRequest # <<>>
    /\ input[1].style = <<>>
    /\ Has(vlog, "submit:pending")


\* C11: the voice sent to the speech endpoint is decided by the language
\* code alone: en gives Algenib, hi gives hi-IN-Neural2-A, te gives
\* te-IN-Wavenet-A and any other code gives Algenib, whatever the text; for
\* a generateVideo request the code is the request's language.
C11_VoiceByLanguage ==
    ttsRequest # <<>> =>
        LET code == ttsInput[1].language
            voice == ttsRequest[1].voiceName
        IN  /\ code = "en" => voice = "Algenib"
            /\ code = "hi" => voice = "hi-IN-Neural2-A"
            /\ code = "te" => voice = "te-IN-Wavenet-A"
            /\ code \notin {"en", "hi", "te"} => voice = "Algenib"
            /\ ttsRequest[1].prompt = ttsInput[1].prompt
            /\ input # <<>> =>
                   /\ input[1].language = <<code>>
                   /\ input[1].narration = ttsInput[1].prompt

C11_Witness ==
    /\ ttsRequest # <<>>
    /\ ttsInput[1].language = "fr"
    /\ ttsRequest[1].voiceName = "Algenib"
    /\ apc = "settled"


\* C12: when every call and the writer eventually answer and the status
\* endpoint eventually answers done=true, a call that was made eventually
\* settles: it returns a result or rejects.
C12_CallSettles == (input # <<>>) ~> Settled

C12_Witness ==
    /\ Settled
    /\ Count(vlog, "check:pending") >= 2
    /\ Has(alog, "end")


\* C13: the poll loop has no iteration bound and no timeout.  Every answer
\* with done=false, however many came before it, is followed at once by a
\* sleep, and every sleep that ends by a status check; the loop is left only
\* by an answer with done=true or by a status check that raises; while the
\* task is in the loop neither the video task nor the call has settled.
C13_PollLoopUnbounded ==
    /\ \A i \in 1..Len(vlog) :
           /\ vlog[i] \in {"submit:pending", "check:pending"} =>
                  i < Len(vlog) /\ vlog[i + 1] = "sleep"
           /\ (vlog[i] = "sleep" /\ i < Len(vlog)) => vlog[i + 1] = "check"
           /\ (vlog[i] = "check" /\ i < Len(vlog)) =>
                  vlog[i + 1] \in {"check:pending", "check:done", "check:raise"}
    /\ vpc = "sleeping" => ENABLED TimerFires
    /\ vpc \in {"sleeping", "checking"} =>
           /\ videoResult.status = "pending"
           /\ ~Settled
           /\ vlog[Len(vlog)] = IF vpc = "sleeping" THEN "sleep" ELSE "check"
    /\ (Has(vlog, "sleep") /\ vpc \notin {"sleeping", "checking"}) =>
           Has(vlog, "check:done") \/ Has(vlog, "check:raise")

C13_Witness ==
    /\ vpc = "checking"
    /\ Count(vlog, "check:pending") >= 2
    /\ Count(vlog, "check") >= 3
    /\ ~Has(vlog, "check:raise")
    /\ audioResult.status # "pending"


\* The calls of the video task to an endpoint, and the answers to each.
VideoCalls == {"submit", "check", "fetch", "read"}
VideoAnswers(call) ==
    IF call = "submit" THEN {"submit:pending", "submit:done", "submit:none", "submit:raise"}
    ELSE IF call = "check" THEN {"check:pending", "check:done", "check:raise"}
    ELSE IF call = "fetch" THEN {"fetch:ok", "fetch:bad", "fetch:raise"}
    ELSE {"read:ok", "read:raise"}

\* C14: the video task is strictly sequential.  A status check comes only
\* after the submission returned an operation; the download is issued only
\* directly after an answer with done=true and no error; the body is read
\* only directly after a successful download, and the data URI exists only
\* after the body was read; a call is answered before the next call is made
\* (at most one is outstanding).  Between the two tasks no order is imposed:
\* while both are pending either one can take the next step.
C14_VideoStepsSequential ==
    /\ \A i \in 1..Len(vlog) :
           /\ vlog[i] = "check" =>
                  \E j \in 1..(i - 1) : vlog[j] \in {"submit:pending", "submit:done"}
           /\ vlog[i] = "fetch" =>
                  /\ i > 1
                  /\ vlog[i - 1] \in {"submit:done", "check:done"}
                  /\ operation # <<>>
                  /\ operation[1].done
                  /\ operation[1].error = <<>>
           /\ vlog[i] = "read" => i > 1 /\ vlog[i - 1] = "fetch:ok"
           /\ (vlog[i] \in VideoCalls /\ i < Len(vlog)) =>
                  vlog[i + 1] \in VideoAnswers(vlog[i])
    /\ Len(vlog) > 0 => vlog[1] = "submit"
    /\ videoResult.status = "fulfilled" =>
           /\ vlog[Len(vlog)] = "read:ok"
           /\ Has(vlog, "fetch:ok")
    /\ (input # <<>> /\ videoResult.status = "pending" /\ audioResult.status = "pending") =>
           ENABLED VideoNext /\ ENABLED AudioNext

C14_Witness ==
    /\ videoResult.status = "fulfilled"
    /\ Has(vlog, "check:pending")
    /\ apc = "encoding"
    /\ Len(writer.bufs) = 1


\* What a raised status check does to the video task: nothing follows it in
\* the task's history (no sleep, no check, no download), and the task is
\* rejected with the wrapped message.
PollErrorAborts ==
    /\ vlog[Len(vlog)] = "check:raise"
    /\ Count(vlog, "check:raise") = 1
    /\ ~Has(vlog, "fetch")
    /\ downloadUrl = <<>>
    /\ vpc = "settled"
    /\ videoResult.status = "rejected"
    /\ StartsWith(videoResult.message, "Failed to check video generation status: ")

\* C15 as stated: a raised status check aborts the video task and the
\* failure reaches the caller immediately: the call has rejected, or its
\* rejection is the next thing to happen, waiting on nothing else.
C15_AsStated ==
    Has(vlog, "check:raise") =>
        /\ PollErrorAborts
        /\ Settled \/ ENABLED Join
        /\ Settled => outcome.status = "rejected"

\* C15 (amended): a raised status check aborts the video task at once (no
\* further sleep, check or download; the task is rejected with the wrapped
\* message); the call rejects with that message once the audio task has
\* settled too, and not before.
C15_PollErrorAborts ==
    Has(vlog, "check:raise") =>
        /\ PollErrorAborts
        /\ audioResult.status # "pending" => Settled \/ ENABLED Join
        /\ audioResult.status = "pending" => ~Settled /\ ~ENABLED Join
        /\ Settled =>
               /\ outcome.status = "rejected"
               /\ Includes(outcome.message, "Failed to check video generation status: ")

C15_Witness ==
    /\ Has(vlog, "check:raise")
    /\ Has(alog, "end")
    /\ outcome.status = "rejected"


\* No content part of the operation's output carries a media reference with a url.
NoMediaWithUrl(op) ==
    \/ op.output = <<>>
    \/ \A i \in 1..Len(op.output[1]) :
           \/ op.output[1][i].media = <<>>
           \/ op.output[1][i].media[1].url = ""

\* C16: a protocol violation stops the video task at once and rejects the
\* call.  When the submission returns no operation, nothing follows it: no
\* sleep, no status check, no download.  When the operation is done without
\* error and no part of its output carries a media reference with a url, no
\* download follows.
C16_ProtocolViolation ==
    /\ Has(vlog, "submit:none") =>
           /\ vlog = <<"submit", "submit:none">>
           /\ downloadUrl = <<>>
           /\ videoResult.status = "rejected"
           /\ Settled => outcome.status = "rejected"
    /\ (operation # <<>> /\ operation[1].done /\ operation[1].error = <<>>
            /\ NoMediaWithUrl(operation[1])) =>
           /\ vlog[Len(vlog)] \in {"submit:done", "check:done"}
           /\ ~Has(vlog, "fetch")
           /\ downloadUrl = <<>>
           /\ videoResult.status = "rejected"
           /\ Settled => outcome.status = "rejected"

C16_Witness ==
    /\ operation # <<>>
    /\ operation[1].done
    /\ operation[1].error = <<>>
    /\ operation[1].output # <<>>
    /\ NoMediaWithUrl(operation[1])
    /\ outcome.status = "rejected"


\* C17: when the download returns a non-success status or no body, the video
\* task fails without reading a body and the call rejects; a result is
\* returned only after a download that returned success with a body; the
\* download is never retried: a request that reaches the download makes
\* exactly one fetch.
C17_DownloadFailure ==
    /\ (videoResponse # <<>> /\ (~videoResponse[1].ok \/ ~videoResponse[1].body)) =>
           /\ ~Has(vlog, "read")
           /\ videoResult.status = "rejected"
           /\ vlog[Len(vlog)] = "fetch:bad"
           /\ Settled => outcome.status = "rejected"
    /\ outcome.status = "returned" =>
           /\ videoResponse # <<>>
           /\ videoResponse[1].ok
           /\ videoResponse[1].body
    /\ Count(vlog, "fetch") <= 1
    /\ (videoResponse # <<>> \/ downloadUrl # <<>>) => Count(vlog, "fetch") = 1

C17_Witness ==
    /\ videoResponse # <<>>
    /\ videoResponse[1].ok
    /\ ~videoResponse[1].body
    /\ outcome.status = "rejected"


\* C18: toWav resolves only on the writer's 'end' event, after every chunk
\* was emitted and never on a 'data' event; it resolves with the base64 text
\* of all emitted chunks concatenated in emission order (the header, then
\* the samples); a writer 'error' event rejects it instead.
C18_EncoderResolvesOnEnd ==
    /\ writer.promise.status = "fulfilled" =>
           /\ alog[Len(alog)] = "end"
           /\ writer.queue = <<>>
           /\ Len(writer.emitted) = 2
           /\ Count(alog, "data") = 2
           /\ writer.promise.value =
                  <<"b64(" \o writer.emitted[1] \o writer.emitted[2] \o ")">>
           /\ writer.emitted[1] = "RIFF(1,24000,16)"
           /\ writer.emitted[2] \in PcmData
           /\ audioResult.value = <<"data:audio/wav;base64," \o writer.promise.value[1]>>
    /\ (Has(alog, "data") /\ ~Has(alog, "end") /\ ~Has(alog, "error")) =>
           writer.promise.status = "pending" /\ audioResult.status = "pending"
    /\ Has(alog, "error") =>
           /\ writer.promise.status = "rejected"
           /\ ~Has(alog, "end")
           /\ alog[Len(alog)] = "error"
    /\ Has(alog, "end") => writer.promise.status = "fulfilled"

C18_Witness ==
    /\ writer.promise.status = "fulfilled"
    /\ Len(writer.emitted) = 2
    /\ writer.emitted[1] # writer.emitted[2]
    /\ vpc = "sleeping"


\* The speech endpoint answered without a media payload.
SpeechWithoutMedia ==
    /\ speechMedia # <<>>
    /\ speechMedia[1] = <<>> \/ speechMedia[1][1].url = ""

\* C19: when the speech endpoint answers without a media payload, the
\* adapter logs a warning and returns undefined without calling toWav; when
\* the video task succeeds the call then returns a result with a videoUrl
\* and no audioUrl, and is not rejected.
C19_NoMediaNoAudio ==
    SpeechWithoutMedia =>
        /\ "warn: TTS generation returned no media URL." \in console
        /\ ~Has(alog, "toWav")
        /\ writer = NoWriter
        /\ audioResult = Fulfilled(<<>>)
        /\ (Settled /\ videoResult.status = "fulfilled") =>
               /\ outcome.status = "returned"
               /\ outcome.videoUrl # <<>>
               /\ outcome.audioUrl = <<>>

C19_Witness ==
    /\ SpeechWithoutMedia
    /\ input # <<>>
    /\ input[1].narration = <<"Hello">>
    /\ input[1].language = <<"hi">>
    /\ outcome.status = "returned"


\* C20: every rejection of the call carries "Video generation failed: "
\* followed by the video task's own message; for an operation that ended
\* with an error of message m this is
\* "Video generation failed: Video generation failed: m".
C20_RejectionMessage ==
    outcome.status = "rejected" =>
        /\ videoResult.status = "rejected"
        /\ outcome.message = "Video generation failed: " \o videoResult.message
        /\ (operation # <<>> /\ operation[1].done /\ operation[1].error # <<>>) =>
               /\ outcome.message =
                      "Video generation failed: Video generation failed: "
                          \o operation[1].error[1]
               /\ outcome.message # operation[1].error[1]

C20_Witness ==
    /\ outcome.status = "rejected"
    /\ operation # <<>>
    /\ operation[1].error # <<>>
    /\ outcome.message = "Video generation failed: Video generation failed: quota exceeded"

\* C21: a request whose narration is the empty string is handled as one without
\* narration: the speech endpoint is never called for it, its audio task is
\* fulfilled with no value and a returned result carries no audio asset; the
\* speech endpoint is called only for a non-empty narration, at most once.
EmptyNarration == input # <<>> /\ input[1].narration = <<"">>

C21_EmptyNarrationSkipsSpeech ==
    /\ EmptyNarration =>
          /\ ttsRequest = <<>>
          /\ ttsInput = <<>>
          /\ ~Has(alog, "tts")
          /\ audioResult = Fulfilled(<<>>)
          /\ (outcome.status = "returned" => outcome.audioUrl = <<>>)
    /\ (input # <<>> /\ (Has(alog, "tts") \/ ttsRequest # <<>>)) =>
          /\ input[1].narration # <<>>
          /\ input[1].narration[1] # ""
          /\ ttsRequest # <<>>
          /\ ttsRequest[1].prompt = input[1].narration
    /\ Count(alog, "tts") <= 1

C21_Witness ==
    /\ EmptyNarration
    /\ outcome.status = "returned"
    /\ Has(vlog, "read:ok")

\* C22: in VideoGenerator, isGenerating is true exactly while a submitted call
\* is awaited, and the callback that resets it can run as soon as the call has
\* settled, resolved or rejected; after a rejected call generatedVideoUrl and
\* generatedAudioUrl are both null, also when the call before had a result;
\* generatedVideoUrl is set only when the last call resolved with that videoUrl.
C22_ViewFollowsCall ==
    /\ ui.isGenerating <=> ui.awaiting
    /\ (ui.awaiting /\ Settled) => ENABLED CallSettles
    /\ (ui.history # <<>> /\ ~ui.awaiting) =>
          /\ ~ui.isGenerating
          /\ Settled
          /\ ui.history[Len(ui.history)] = outcome.status
    /\ outcome.status = "rejected" =>
          /\ ui.generatedVideoUrl = <<>>
          /\ ui.generatedAudioUrl = <<>>
    /\ ui.awaiting => ui.generatedVideoUrl = <<>> /\ ui.generatedAudioUrl = <<>>
    /\ ui.generatedVideoUrl # <<>> =>
          /\ outcome.status = "returned"
          /\ outcome.videoUrl = ui.generatedVideoUrl
          /\ Truthy(outcome.videoUrl)
    /\ ui.generatedAudioUrl # <<>> =>
          /\ ui.generatedVideoUrl # <<>>
          /\ outcome.audioUrl = ui.generatedAudioUrl

C22_Witness ==
    /\ ui.history = <<"returned", "rejected">>
    /\ ~ui.awaiting
    /\ ~ui.isGenerating
    /\ ui.generatedVideoUrl = <<>>
    /\ ui.toast = <<outcome.message>>

====
